---- MODULE Spec2Model ----
(***************************************************************************)
(* Model of the bank-account HTTP service (src/app.py, src/models.py).     *)
(*                                                                         *)
(* Text is a sequence of one-character strings.  A Python Decimal is the   *)
(* record of Decimal.as_tuple().  A Python float / SQL Float column is an  *)
(* IEEE-754 binary64 value, kept as sign, odd integer significand and      *)
(* binary exponent, with every arithmetic result rounded to 53 significant *)
(* bits, ties to even.                                                     *)
(***************************************************************************)
EXTENDS Integers, Sequences, FiniteSets, TLC

VARIABLES
    accounts,   \* the rows of the accounts table, in the order of their ids
    last,       \* the last request handled and its response
    nreq,       \* Spec: number of requests handled so far
    phase,      \* SpecRequest: "setup", "ready" or "done"
    sess        \* SpecConc: the request each worker is handling

vars == <<accounts, last, nreq, phase, sess>>

(***************************************************************************)
(* Natural numbers of arbitrary size: little-endian sequences of limbs in  *)
(* 0..Base-1 whose last (most significant) limb is not 0; <<>> is zero.    *)
(***************************************************************************)
LimbBits == 16

Base == 2^LimbBits

Limb(a, i) == IF i <= Len(a) THEN a[i] ELSE 0

RECURSIVE BTrim(_)
BTrim(a) ==
    IF a = <<>> \/ a[Len(a)] # 0 THEN a ELSE BTrim(SubSeq(a, 1, Len(a) - 1))

RECURSIVE BAddFrom(_, _, _, _, _)
BAddFrom(a, b, i, c, acc) ==
    IF i > Len(a) /\ i > Len(b)
    THEN IF c = 1 THEN Append(acc, 1) ELSE acc
    ELSE LET s == Limb(a, i) + Limb(b, i) + c
         IN  BAddFrom(a, b, i + 1, s \div Base, Append(acc, s % Base))

BAdd(a, b) == BAddFrom(a, b, 1, 0, <<>>)

RECURSIVE BSubFrom(_, _, _, _, _)
BSubFrom(a, b, i, c, acc) ==
    IF i > Len(a)
    THEN BTrim(acc)
    ELSE LET s == Limb(a, i) - Limb(b, i) - c
         IN  BSubFrom(a, b, i + 1, IF s < 0 THEN 1 ELSE 0,
                      Append(acc, IF s < 0 THEN s + Base ELSE s))

\* a - b for a >= b
BSub(a, b) == BSubFrom(a, b, 1, 0, <<>>)

RECURSIVE BCmpFrom(_, _, _)
BCmpFrom(a, b, i) ==
    IF i = 0 THEN 0
    ELSE IF a[i] > b[i] THEN 1
    ELSE IF a[i] < b[i] THEN -1
    ELSE BCmpFrom(a, b, i - 1)

\* -1, 0 or 1 as a < b, a = b, a > b
BCmp(a, b) ==
    IF Len(a) > Len(b) THEN 1
    ELSE IF Len(a) < Len(b) THEN -1
    ELSE BCmpFrom(a, b, Len(a))

RECURSIVE BMulAddFrom(_, _, _, _, _)
BMulAddFrom(a, k, i, c, acc) ==
    IF i > Len(a) /\ c = 0
    THEN acc
    ELSE LET s == Limb(a, i) * k + c
         IN  BMulAddFrom(a, k, i + 1, s \div Base, Append(acc, s % Base))

\* a * k + c for naturals k, c below Base \div 2
BMulAdd(a, k, c) == BTrim(BMulAddFrom(a, k, 1, c, <<>>))

RECURSIVE BDivFrom(_, _, _, _, _)
BDivFrom(a, k, i, r, acc) ==
    IF i = 0
    THEN [q |-> BTrim(acc), r |-> r]
    ELSE LET t == r * Base + a[i]
         IN  BDivFrom(a, k, i - 1, t % k, <<t \div k>> \o acc)

\* quotient and remainder of a by a positive k below Base \div 2
BDiv(a, k) == BDivFrom(a, k, Len(a), 0, <<>>)

\* a * 2^n
BShl(a, n) ==
    LET hi == BMulAdd(a, 2^(n % LimbBits), 0)
    IN  IF a = <<>> THEN <<>> ELSE [i \in 1..(n \div LimbBits) |-> 0] \o hi

\* a \div 2^n, and whether the division is exact
BShr(a, n) ==
    LET m == n \div LimbBits
        d == BDiv(SubSeq(a, m + 1, Len(a)), 2^(n % LimbBits))
    IN  [q |-> d.q, exact |-> d.r = 0 /\ \A i \in 1..m : Limb(a, i) = 0]

\* number of significant bits of a
BitLen(a) ==
    IF a = <<>> THEN 0
    ELSE LET top == a[Len(a)]
         IN  LimbBits * (Len(a) - 1)
               + (CHOOSE n \in 1..LimbBits : 2^(n - 1) <= top /\ top < 2^n)

BIsOdd(a) == a # <<>> /\ a[1] % 2 = 1

\* number of low zero bits of a # 0
LowZeros(a) ==
    LET j == CHOOSE j \in 1..Len(a) : a[j] # 0 /\ \A i \in 1..(j - 1) : a[i] = 0
        t == CHOOSE t \in 0..(LimbBits - 1) : a[j] % 2^(t + 1) # 0 /\ a[j] % 2^t = 0
    IN  LimbBits * (j - 1) + t

RECURSIVE BFromDigitsFrom(_, _, _)
BFromDigitsFrom(digits, i, acc) ==
    IF i > Len(digits) THEN acc
    ELSE BFromDigitsFrom(digits, i + 1, BMulAdd(acc, 10, digits[i]))

\* the natural number written by a sequence of decimal digits
BFromDigits(digits) == BFromDigitsFrom(digits, 1, <<>>)

\* a * 10^n
RECURSIVE BTimesPow10(_, _)
BTimesPow10(a, n) == IF n = 0 THEN a ELSE BTimesPow10(BMulAdd(a, 10, 0), n - 1)

\* a \div 10^n, and whether the division is exact
RECURSIVE BDivPow10(_, _, _)
BDivPow10(a, n, exact) ==
    IF n = 0 THEN [q |-> a, exact |-> exact]
    ELSE LET d == BDiv(a, 10) IN BDivPow10(d.q, n - 1, exact /\ d.r = 0)

(***************************************************************************)
(* binary64 floating point                                                 *)
(***************************************************************************)
Precision == 53

\* Python values held by the balance column and the JSON responses: a float,
\* None (SQL NULL / JSON null), or no value at all
FZero == [kind |-> "float", sign |-> 0, man |-> <<>>, exp |-> 0]

None == [kind |-> "None", sign |-> 0, man |-> <<>>, exp |-> 0]

Absent == [kind |-> "absent", sign |-> 0, man |-> <<>>, exp |-> 0]

\* the float of value (-1)^sign * n * 2^e, n already within the precision
FCanon(sign, n, e) ==
    IF n = <<>> THEN FZero
    ELSE LET z == LowZeros(n)
         IN  [kind |-> "float", sign |-> sign, man |-> BShr(n, z).q, exp |-> e + z]

\* round (n + f) * 2^e, 0 <= f < 1 and f > 0 iff sticky, to Precision
\* significant bits, to nearest, ties to even
FRoundUp(sign, kept, e, half, rest) ==
    FCanon(sign, IF half /\ (rest \/ BIsOdd(kept)) THEN BAdd(kept, <<1>>) ELSE kept, e)

\* d is the number shifted right to one bit more than the precision
FRoundOff(sign, d, e, sticky) ==
    FRoundUp(sign, BShr(d.q, 1).q, e, BIsOdd(d.q), sticky \/ ~d.exact)

FRound(sign, n, e, sticky) ==
    IF BitLen(n) <= Precision
    THEN FCanon(sign, n, e)
    ELSE FRoundOff(sign, BShr(n, BitLen(n) - Precision - 1),
                   e + BitLen(n) - Precision, sticky)

FNeg(x) == IF x.man = <<>> THEN x ELSE [x EXCEPT !.sign = 1 - x.sign]

\* x + y
FAddAligned(sx, ax, sy, ay, e) ==
    IF sx = sy
    THEN FRound(sx, BAdd(ax, ay), e, FALSE)
    ELSE IF BCmp(ax, ay) >= 0
         THEN FRound(sx, BSub(ax, ay), e, FALSE)
         ELSE FRound(sy, BSub(ay, ax), e, FALSE)

FAdd(x, y) ==
    LET e == IF x.exp < y.exp THEN x.exp ELSE y.exp
    IN  FAddAligned(x.sign, BShl(x.man, x.exp - e), y.sign, BShl(y.man, y.exp - e), e)

\* x - y
FSub(x, y) == FAdd(x, FNeg(y))

\* x < y
FCmpAbs(x, y) ==
    LET e == IF x.exp < y.exp THEN x.exp ELSE y.exp
    IN  BCmp(BShl(x.man, x.exp - e), BShl(y.man, y.exp - e))

FLt(x, y) ==
    IF x.sign # y.sign THEN x.sign = 1
    ELSE IF x.sign = 0 THEN FCmpAbs(x, y) < 0
    ELSE FCmpAbs(y, x) < 0

(***************************************************************************)
(* Text and decimal.Decimal                                                *)
(***************************************************************************)
DigitOf ==
    ("0" :> 0) @@ ("1" :> 1) @@ ("2" :> 2) @@ ("3" :> 3) @@ ("4" :> 4) @@
    ("5" :> 5) @@ ("6" :> 6) @@ ("7" :> 7) @@ ("8" :> 8) @@ ("9" :> 9)

LowerOf ==
    ("A" :> "a") @@ ("E" :> "e") @@ ("F" :> "f") @@ ("I" :> "i") @@
    ("N" :> "n") @@ ("S" :> "s") @@ ("T" :> "t") @@ ("Y" :> "y")

Lower(c) == IF c \in DOMAIN LowerOf THEN LowerOf[c] ELSE c

IsDigit(c) == c \in DOMAIN DigitOf

RECURSIVE Strip(_)
Strip(s) ==
    IF s = <<>> THEN s
    ELSE IF s[1] = " " THEN Strip(Tail(s))
    ELSE IF s[Len(s)] = " " THEN Strip(SubSeq(s, 1, Len(s) - 1))
    ELSE s

\* index just after the run of digits of s that starts at index i
RECURSIVE DigitsEnd(_, _)
DigitsEnd(s, i) == IF i <= Len(s) /\ IsDigit(s[i]) THEN DigitsEnd(s, i + 1) ELSE i

DigitsOf(s) == [i \in 1..Len(s) |-> DigitOf[s[i]]]

RECURSIVE IntOfDigits(_, _, _)
IntOfDigits(digits, i, acc) ==
    IF i > Len(digits) THEN acc ELSE IntOfDigits(digits, i + 1, 10 * acc + digits[i])

RECURSIVE StripZeros(_)
StripZeros(digits) ==
    IF Len(digits) > 1 /\ digits[1] = 0 THEN StripZeros(Tail(digits)) ELSE digits

\* Decimal.as_tuple(); kind is "finite", or the exponent letter of a special
\* value: "F" infinity, "n" NaN, "N" signalling NaN
DecimalTuple(kind, sign, digits, exponent) ==
    [kind |-> kind, sign |-> sign, digits |-> digits, exponent |-> exponent]

\* the exception Decimal(text) raises on text that is no number
InvalidOperation == DecimalTuple("InvalidOperation", 0, <<>>, 0)

\* Decimal(text) for a text s that is no number: an infinity, a NaN with
\* its diagnostic digits, or the exception
ParseSpecial(sign, s) ==
    LET n == Len(s)
        isNaN(k) == /\ n >= k + 2
                    /\ SubSeq(s, k, k + 2) = <<"n", "a", "n">>
                    /\ DigitsEnd(s, k + 3) = n + 1
    IN  IF s = <<"i", "n", "f">> \/ s = <<"i", "n", "f", "i", "n", "i", "t", "y">>
        THEN DecimalTuple("F", sign, <<0>>, 0)
        ELSE IF isNaN(1)
        THEN DecimalTuple("n", sign, DigitsOf(SubSeq(s, 4, n)), 0)
        ELSE IF n >= 1 /\ s[1] = "s" /\ isNaN(2)
        THEN DecimalTuple("N", sign, DigitsOf(SubSeq(s, 5, n)), 0)
        ELSE InvalidOperation

\* the text s read as digits int, "." and digits frac, and an exponent whose
\* digits are s[i3..i4-1]
ParseNumber(sign, s, int, frac, hasExp, expNeg, i3, i4) ==
    LET expAbs  == IF hasExp THEN IntOfDigits(DigitsOf(SubSeq(s, i3, i4 - 1)), 1, 0) ELSE 0
        numeric == /\ int # <<>> \/ frac # <<>>
                   /\ hasExp => i4 > i3
                   /\ i4 = Len(s) + 1
    IN  IF numeric
        THEN DecimalTuple("finite", sign, StripZeros(DigitsOf(int \o frac)),
                          (IF expNeg THEN 0 - expAbs ELSE expAbs) - Len(frac))
        ELSE ParseSpecial(sign, s)

\* the integer part ends before i1 and the fraction before i2
ParseExponent(sign, s, i1, hasDot, i2) ==
    LET hasExp  == i2 <= Len(s) /\ s[i2] = "e"
        expSign == hasExp /\ i2 + 1 <= Len(s) /\ s[i2 + 1] \in {"+", "-"}
        i3      == IF expSign THEN i2 + 2 ELSE i2 + 1
    IN  ParseNumber(sign, s, SubSeq(s, 1, i1 - 1),
                    IF hasDot THEN SubSeq(s, i1 + 1, i2 - 1) ELSE <<>>,
                    hasExp, expSign /\ s[i2 + 1] = "-", i3,
                    IF hasExp THEN DigitsEnd(s, i3) ELSE i2)

ParseFraction(sign, s, i1) ==
    LET hasDot == i1 <= Len(s) /\ s[i1] = "."
    IN  ParseExponent(sign, s, i1, hasDot, IF hasDot THEN DigitsEnd(s, i1 + 1) ELSE i1)

\* s0 is the text without the blanks around it and without underscores
ParseSigned(s0) ==
    LET hasSign == s0 # <<>> /\ s0[1] \in {"+", "-"}
        body    == IF hasSign THEN Tail(s0) ELSE s0
    IN  ParseFraction(IF hasSign /\ s0[1] = "-" THEN 1 ELSE 0,
                      [i \in 1..Len(body) |-> Lower(body[i])],
                      DigitsEnd([i \in 1..Len(body) |-> Lower(body[i])], 1))

\* Decimal(text)
ParseDecimal(text) == ParseSigned(SelectSeq(Strip(text), LAMBDA c : c # "_"))

DIsZero(d) == \A i \in 1..Len(d.digits) : d.digits[i] = 0

\* -1, 0 or 1 as a < b, a = b, a > b, for finite a and b
DCmp(a, b) ==
    LET e  == IF a.exponent < b.exponent THEN a.exponent ELSE b.exponent
        ma == BTimesPow10(BFromDigits(a.digits), a.exponent - e)
        mb == BTimesPow10(BFromDigits(b.digits), b.exponent - e)
        na == a.sign = 1 /\ ~DIsZero(a)
        nb == b.sign = 1 /\ ~DIsZero(b)
    IN  IF na /\ ~nb THEN -1
        ELSE IF nb /\ ~na THEN 1
        ELSE IF na THEN BCmp(mb, ma)
        ELSE BCmp(ma, mb)

\* float(d) for a finite d: the binary64 value nearest to d
FloatOfDecimal(d) ==
    LET n == BFromDigits(d.digits)
        k == 0 - d.exponent
        s == Precision + 2 + 4 * k
        q == BDivPow10(BShl(n, s), k, TRUE)
    IN  IF d.exponent >= 0
        THEN FRound(d.sign, BTimesPow10(n, d.exponent), 0, FALSE)
        ELSE IF n = <<>> THEN FZero
        ELSE FRound(d.sign, q.q, 0 - s, ~q.exact)

RECURSIVE IntText(_)
\* str(n) for an integer n >= 0
IntText(n) ==
    LET c == CHOOSE c \in DOMAIN DigitOf : DigitOf[c] = n % 10
    IN  IF n < 10 THEN <<c>> ELSE Append(IntText(n \div 10), c)

(***************************************************************************)
(* Requests and responses                                                  *)
(***************************************************************************)
\* A JSON value as request.get_json() delivers it.  type is "string",
\* "number", "null", "true" or "false"; text holds the characters of a
\* string, or str() of a number.
Json(type, text) == [type |-> type, text |-> text]

JsonNull == Json("null", <<>>)

\* request.get_json(): None, or a dict that has or has not the key the
\* handler reads ("balance" for create_account, "amount" otherwise)
Payload(data, has, value) == [data |-> data, has |-> has, value |-> value]

NoPayload == Payload("None", FALSE, JsonNull)

EmptyDict == Payload("dict", FALSE, JsonNull)

Field(value) == Payload("dict", TRUE, value)

\* str(value)
Str(value) ==
    CASE value.type = "null"  -> <<"N", "o", "n", "e">>
      [] value.type = "true"  -> <<"T", "r", "u", "e">>
      [] value.type = "false" -> <<"F", "a", "l", "s", "e">>
      [] OTHER                -> value.text

\* the value the Float column stores for a JSON number or null
ColumnValue(value) ==
    IF value.type = "null" THEN None ELSE FloatOfDecimal(ParseDecimal(value.text))

\* jsonify(...), status; error is the message of a 4xx response, or the name
\* of the exception that escaped the handler (status 500)
Response(status, error, balance, account_number) ==
    [status |-> status, error |-> error, balance |-> balance,
     account_number |-> account_number]

Error(status, error) == Response(status, error, Absent, <<>>)

MAX_AMOUNT == ParseDecimal(<<"9", "9", "9", "9", "9", "9", "9", "9">>)

NotNumericMessage(op) ==
    IF op = "deposit"
    THEN "Deposit failed - Amount must be numeric and have at most 2 decimal places"
    ELSE "Withdrawal failed - Amount must be numeric and have at most 2 decimal places"

DecimalsMessage(op) ==
    IF op = "deposit"
    THEN "Deposit failed - Amount must have at most 2 decimal places"
    ELSE "Withdrawal failed - Amount must have at most 2 decimal places"

\* d < 0; for a NaN the comparison raises and is not evaluated here
DecimalIsNegative(d) == d.sign = 1 /\ (d.kind = "F" \/ ~DIsZero(d))

\* d == 0
DecimalIsZero(d) == d.kind = "finite" /\ DIsZero(d)

\* The checks of the amount, in the order of the code.  ok with the Decimal
\* d, or the response of the first check that fails.
ValidateDecimal(op, d) ==
    LET fail(resp) == [ok |-> FALSE, resp |-> resp, d |-> d]
    IN  IF d = InvalidOperation
        THEN fail(Error(400, NotNumericMessage(op)))
        ELSE IF d.kind \in {"n", "N"}
        THEN fail(Error(500, "InvalidOperation"))
        ELSE IF DecimalIsNegative(d)
        THEN fail(Error(400, "Amount cannot be negative"))
        ELSE IF DecimalIsZero(d)
        THEN fail(Error(400, "Amount must be greater than zero"))
        ELSE IF d.kind = "F"
        THEN fail(Error(500, "TypeError"))
        ELSE IF d.exponent < -2
        THEN fail(Error(400, DecimalsMessage(op)))
        ELSE IF DCmp(d, MAX_AMOUNT) > 0
        THEN fail(Error(400, "Amount exceeds maximum allowed value"))
        ELSE [ok |-> TRUE, resp |-> Error(200, ""), d |-> d]

\* amount = data.get("amount"), d = Decimal(str(amount)) and the checks of d
Validate(op, amount) == ValidateDecimal(op, ParseDecimal(Str(amount)))

(***************************************************************************)
(* The accounts table and the handlers                                     *)
(***************************************************************************)
\* a row of the table: Account(account_number, balance) with its id
Account(id, account_number, balance) ==
    [id |-> id, account_number |-> account_number, balance |-> balance]

\* db.query(Account).filter_by(account_number=...).first(): the index of the
\* row, 0 when there is none
Find(accts, account_number) ==
    IF \E i \in 1..Len(accts) : accts[i].account_number = account_number
    THEN CHOOSE i \in 1..Len(accts) :
            /\ accts[i].account_number = account_number
            /\ \A j \in 1..(i - 1) : accts[j].account_number # account_number
    ELSE 0

\* UniqueViolation without the unique constraint on the column
NoUniqueViolation(accts, account_number) == FALSE

\* the unique constraint on account_number rejects the INSERT
UniqueViolation(accts, account_number) ==
    \E i \in 1..Len(accts) : accts[i].account_number = account_number

Result(accts, resp) == [accounts |-> accts, resp |-> resp]

\* POST /accounts; r is the value random.randint(1000, 9999) returns
create_account(accts, data, r) ==
    LET balance        == IF data.has THEN ColumnValue(data.value) ELSE FZero
        account_number == IntText(r)
    IN  IF data.data = "None"
        THEN Result(accts, Error(400, "Invalid or missing JSON payload"))
        ELSE IF UniqueViolation(accts, account_number)
        THEN Result(accts, Error(500, "IntegrityError"))
        ELSE Result(Append(accts, Account(Len(accts) + 1, account_number, balance)),
                    Response(201, "", balance, account_number))

\* GET /accounts/<account_number>/balance
get_balance(accts, account_number) ==
    LET i == Find(accts, account_number)
    IN  IF i = 0
        THEN Result(accts, Error(404, "Account not found"))
        ELSE Result(accts, Response(200, "", accts[i].balance, <<>>))

(***************************************************************************)
(* Bounds and inputs                                                       *)
(***************************************************************************)
\* random.randint(1000, 9999) is narrowed to FirstNumber..LastNumber
FirstNumber == 1000

LastNumber == 1001

\* requests handled in one behaviour of Spec
MaxRequests == 4

Numbers == FirstNumber..LastNumber

\* the two concurrent workers of SpecConc
Procs == {1, 2}

\* the account numbers requests name: every number that can be generated,
\* and one that cannot
Unknown == <<"0", "0", "0", "0">>

Paths == {IntText(r) : r \in Numbers} \cup {Unknown}

Amount01 == Json("string", <<"0", ".", "1">>)

Amount02 == Json("string", <<"0", ".", "2">>)

Amount03 == Json("number", <<"0", ".", "3">>)

\* payloads of POST /accounts
CreatePayloads ==
    { NoPayload, EmptyDict, Field(Amount03), Field(Json("number", <<"-", "0", ".", "5">>)) }

\* payloads of deposit and withdraw in Spec
Payloads ==
    { EmptyDict, Field(Amount01), Field(Amount02), Field(Json("number", <<"-", "1">>)) }

\* payloads of POST /accounts in SpecRequest
SetupPayloads ==
    { NoPayload, EmptyDict, Field(JsonNull), Field(Json("number", <<"5", "0">>)) }

\* the amounts of deposit and withdraw in SpecRequest
Amounts ==
    { Amount01, Amount03, JsonNull, Json("true", <<>>),
      Json("number", <<"5", "0">>),
      Json("number", <<"-", "1">>),
      Json("number", <<"9", "9", "9", "9", "9", "9", "9", "9">>),
      Json("number", <<"1", "0", "0", "0", "0", "0", "0", "0", "0">>),
      Json("number", <<"1", "0", "0", "0", "0", "0", "0", "0", "0", ".", "0", "0", "1">>),
      Json("number", <<"1", ".", "0", "0", "5">>),
      Json("number", <<"-", "1", ".", "0", "0", "5">>),
      Json("number", <<"0">>),
      Json("string", <<"1", "2", ".", "3">>),
      Json("string", <<"1", ".", "5", "0", "0">>),
      Json("string", <<"0", ".", "0", "0", "0">>),
      Json("string", <<"-", "0">>),
      Json("string", <<"1", "E", "+", "2">>),
      Json("string", <<" ", "7", " ">>),
      Json("string", <<>>),
      Json("string", <<"a", "b", "c">>),
      Json("string", <<"N", "a", "N">>),
      Json("string", <<"I", "n", "f", "i", "n", "i", "t", "y">>),
      Json("string", <<"-", "I", "n", "f", "i", "n", "i", "t", "y">>) }

\* payloads of deposit and withdraw in SpecRequest
RequestPayloads == {NoPayload, EmptyDict} \cup {Field(a) : a \in Amounts}

\* payloads of deposit and withdraw in SpecConc
ConcPayloads == {EmptyDict, Field(Amount01), Field(Amount02)}

AllPayloads == Payloads \cup RequestPayloads \cup ConcPayloads

\* Validate and float(d), computed once for every amount a request can carry
Checked ==
    [op \in {"deposit", "withdraw"}, value \in {p.value : p \in AllPayloads} |->
        LET v == Validate(op, value)
        IN  [v |-> v, amount |-> IF v.ok THEN FloatOfDecimal(v.d) ELSE Absent]]

\* deposit and withdraw up to the commit: the row read, the checks, and the
\* new balance the session holds for the row
PrepareRow(op, accts, i, data, v, amount) ==
    LET stop(resp) == [ok |-> FALSE, resp |-> resp, row |-> i, read |-> Absent,
                       amount |-> Absent, balance |-> Absent]
    IN  IF i = 0
        THEN stop(Error(404, "Account not found"))
        ELSE IF data.data = "None" \/ ~data.has
        THEN stop(Error(400, "Invalid or missing JSON payload or 'amount'"))
        ELSE IF ~v.ok
        THEN stop(v.resp)
        ELSE IF accts[i].balance = None
        THEN stop(Error(500, "TypeError"))
        ELSE IF op = "withdraw" /\ FLt(accts[i].balance, amount)
        THEN stop(Error(400, "Insufficient balance"))
        ELSE [ok |-> TRUE, resp |-> Error(200, ""), row |-> i,
              read |-> accts[i].balance, amount |-> amount,
              balance |-> IF op = "deposit"
                          THEN FAdd(accts[i].balance, amount)
                          ELSE FSub(accts[i].balance, amount)]

Prepare(op, accts, account_number, data) ==
    PrepareRow(op, accts, Find(accts, account_number), data,
               Checked[op, data.value].v, Checked[op, data.value].amount)

\* Commit with an UPDATE that has no WHERE clause
CommitAll(accts, row, balance) ==
    [i \in 1..Len(accts) |-> [accts[i] EXCEPT !.balance = balance]]

\* Commit with an UPDATE that always names the first row
CommitFirst(accts, row, balance) == [accts EXCEPT ![1].balance = balance]

\* db.commit(): the UPDATE of the row the session changed
Commit(accts, row, balance) == [accts EXCEPT ![row].balance = balance]

\* a whole deposit or withdraw request, nothing running beside it
\* the response after db.commit(): the balance of the row as stored
Committed(next, row) == Result(next, Response(200, "", next[row].balance, <<>>))

Finish(accts, p) ==
    IF ~p.ok
    THEN Result(accts, p.resp)
    ELSE Committed(Commit(accts, p.row, p.balance), p.row)

Handle(op, accts, account_number, data) ==
    Finish(accts, Prepare(op, accts, account_number, data))

\* POST /accounts/<account_number>/deposit
deposit(accts, account_number, data) == Handle("deposit", accts, account_number, data)

\* POST /accounts/<account_number>/withdraw
withdraw(accts, account_number, data) == Handle("withdraw", accts, account_number, data)

Request(op, account_number, data, resp) ==
    [op |-> op, account_number |-> account_number, data |-> data, resp |-> resp]

NoRequest == Request("none", <<>>, NoPayload, Error(0, ""))

Idle ==
    [pc |-> "idle", op |-> "none", account_number |-> <<>>, data |-> NoPayload,
     row |-> 0, read |-> Absent, amount |-> Absent, balance |-> Absent,
     resp |-> Error(0, "")]

Init ==
    /\ accounts = <<>>
    /\ last = NoRequest
    /\ nreq = 0
    /\ phase = "setup"
    /\ sess = [p \in Procs |-> Idle]

(***************************************************************************)
(* Spec: requests handled one after the other                              *)
(***************************************************************************)
\* one request, handled from start to end; res is what its handler gives
Serve(op, account_number, data, res) ==
    /\ accounts' = res.accounts
    /\ last' = Request(op, account_number, data, res.resp)

CreateAccount ==
    \E data \in CreatePayloads, r \in Numbers :
        /\ nreq < MaxRequests
        /\ Serve("create_account", <<>>, data, create_account(accounts, data, r))
        /\ nreq' = nreq + 1
        /\ UNCHANGED <<phase, sess>>

GetBalance ==
    \E n \in Paths :
        /\ nreq < MaxRequests
        /\ Serve("get_balance", n, NoPayload, get_balance(accounts, n))
        /\ nreq' = nreq + 1
        /\ UNCHANGED <<phase, sess>>

Deposit ==
    \E n \in Paths, data \in Payloads :
        /\ nreq < MaxRequests
        /\ Serve("deposit", n, data, deposit(accounts, n, data))
        /\ nreq' = nreq + 1
        /\ UNCHANGED <<phase, sess>>

Withdraw ==
    \E n \in Paths, data \in Payloads :
        /\ nreq < MaxRequests
        /\ Serve("withdraw", n, data, withdraw(accounts, n, data))
        /\ nreq' = nreq + 1
        /\ UNCHANGED <<phase, sess>>

Next == CreateAccount \/ GetBalance \/ Deposit \/ Withdraw

Spec == Init /\ [][Next]_vars

(***************************************************************************)
(* SpecRequest: one account is created, then one deposit or withdraw       *)
(* request is handled, with any amount.                                    *)
(***************************************************************************)
Setup ==
    \E data \in SetupPayloads, r \in Numbers :
        /\ phase = "setup"
        /\ Serve("create_account", <<>>, data, create_account(accounts, data, r))
        /\ phase' = "ready"
        /\ UNCHANGED <<nreq, sess>>

RequestDeposit ==
    \E n \in Paths, data \in RequestPayloads :
        /\ phase = "ready"
        /\ Serve("deposit", n, data, deposit(accounts, n, data))
        /\ phase' = "done"
        /\ UNCHANGED <<nreq, sess>>

RequestWithdraw ==
    \E n \in Paths, data \in RequestPayloads :
        /\ phase = "ready"
        /\ Serve("withdraw", n, data, withdraw(accounts, n, data))
        /\ phase' = "done"
        /\ UNCHANGED <<nreq, sess>>

NextRequest == Setup \/ RequestDeposit \/ RequestWithdraw

SpecRequest == Init /\ [][NextRequest]_vars

(***************************************************************************)
(* SpecConc: accounts are created, and two workers handle one deposit or   *)
(* withdraw request each, every worker in a session of its own.  A request *)
(* reads the row and computes the new balance (Begin), writes it with an   *)
(* UPDATE of that row (CommitUpdate), and reads the row again for the      *)
(* response (Reload); the steps of the two workers interleave.             *)
(***************************************************************************)
Create ==
    \E r \in Numbers :
        /\ Serve("create_account", <<>>, EmptyDict, create_account(accounts, EmptyDict, r))
        /\ UNCHANGED <<nreq, phase, sess>>

\* the session of a request after Prepare gave s
Started(op, n, data, s) ==
    [pc |-> IF s.ok THEN "commit" ELSE "done", op |-> op,
     account_number |-> n, data |-> data, row |-> s.row,
     read |-> s.read, amount |-> s.amount,
     balance |-> s.balance, resp |-> s.resp]

Begin(p) ==
    \E op \in {"deposit", "withdraw"}, n \in Paths, data \in ConcPayloads :
        /\ sess[p].pc = "idle"
        /\ sess' = [sess EXCEPT ![p] = Started(op, n, data, Prepare(op, accounts, n, data))]
        /\ UNCHANGED <<accounts, last, nreq, phase>>

CommitUpdate(p) ==
    /\ sess[p].pc = "commit"
    /\ accounts' = Commit(accounts, sess[p].row, sess[p].balance)
    /\ sess' = [sess EXCEPT ![p].pc = "reload"]
    /\ UNCHANGED <<last, nreq, phase>>

Reload(p) ==
    /\ sess[p].pc = "reload"
    /\ sess' = [sess EXCEPT ![p].pc = "done",
                            ![p].resp = Response(200, "", accounts[sess[p].row].balance, <<>>)]
    /\ UNCHANGED <<accounts, last, nreq, phase>>

Work == \E p \in Procs : Begin(p) \/ CommitUpdate(p) \/ Reload(p)

NextConc == Create \/ Work

SpecConc == Init /\ [][NextConc]_vars

(***************************************************************************)
(* Properties                                                              *)
(***************************************************************************)
Exists(account_number) == Find(accounts, account_number) # 0

IsUpdate(op) == op \in {"deposit", "withdraw"}

DecimalZero == DecimalTuple("finite", 0, <<0>>, 0)

\* the outcome the validation rules give an amount: the kind of the first
\* rule that fails, taking the rules in their order, or "Valid"
RuleOutcomeOf(d) ==
    IF d.kind # "finite" THEN "NotNumeric"
    ELSE IF DCmp(d, DecimalZero) < 0 THEN "Negative"
    ELSE IF DCmp(d, DecimalZero) = 0 THEN "Zero"
    ELSE IF d.exponent < -2 THEN "TooManyDecimals"
    ELSE IF DCmp(d, MAX_AMOUNT) > 0 THEN "ExceedsMaximum"
    ELSE "Valid"

RuleOutcome(value) == RuleOutcomeOf(ParseDecimal(Str(value)))

\* the outcome of the validation a response reports
ReportedOutcome(op, resp) ==
    IF resp.status = 200 \/ resp = Error(400, "Insufficient balance") THEN "Valid"
    ELSE IF resp = Error(400, NotNumericMessage(op)) THEN "NotNumeric"
    ELSE IF resp = Error(400, "Amount cannot be negative") THEN "Negative"
    ELSE IF resp = Error(400, "Amount must be greater than zero") THEN "Zero"
    ELSE IF resp = Error(400, DecimalsMessage(op)) THEN "TooManyDecimals"
    ELSE IF resp = Error(400, "Amount exceeds maximum allowed value") THEN "ExceedsMaximum"
    ELSE "Other"

\* amounts of money up to MaxCents cents, as the float column stores them
MaxCents == 100

MoneyFloat ==
    [c \in 0..MaxCents |->
        FloatOfDecimal(DecimalTuple("finite", 0, DigitsOf(IntText(c)), -2))]

\* a valid amount of Payloads in cents
Cents(value) ==
    LET d == ParseDecimal(Str(value))
    IN  IntOfDigits(d.digits, 1, 0) * 10^(d.exponent + 2)

\* C1 (as specified; the code violates it): in every reachable state every stored balance is
\* a number >= 0.
C1_BalanceNonNegative ==
    \A i \in 1..Len(accounts) :
        accounts[i].balance.kind = "float" /\ accounts[i].balance.sign = 0

\* C2 (as specified; the code violates it): a deposit or withdraw on an account that does not
\* exist answers NotFound whatever the payload, and a withdraw with an
\* amount that fails a validation rule answers with a validation error,
\* never with InsufficientBalance or anything else.
C2_CheckOrder ==
    (phase = "done") =>
        /\ ~Exists(last.account_number) => last.resp = Error(404, "Account not found")
        /\ ( /\ last.op = "withdraw"
             /\ Exists(last.account_number)
             /\ last.data.has
             /\ RuleOutcome(last.data.value) # "Valid" )
           => ReportedOutcome(last.op, last.resp)
                 \in {"NotNumeric", "Negative", "Zero", "TooManyDecimals", "ExceedsMaximum"}

\* C3 (as specified; the code violates it): for every amount the validation of deposit and
\* withdraw reports the kind of the first failing rule in the order
\* NotNumeric, Negative, Zero, TooManyDecimals, ExceedsMaximum, and accepts
\* the amount exactly when no rule fails.
C3_FirstFailingRule ==
    ( /\ phase = "done"
      /\ Exists(last.account_number)
      /\ accounts[Find(accounts, last.account_number)].balance # None
      /\ last.data.has )
    => ReportedOutcome(last.op, last.resp) = RuleOutcome(last.data.value)

\* C4 (as specified; the code violates it): a withdraw of a valid amount a from an account
\* whose balance is the amount of money b succeeds and leaves b - a when
\* a <= b, and fails with InsufficientBalance leaving b when a > b.
C4_WithdrawExact ==
    [][ LET i == Find(accounts, last'.account_number)
            a == Cents(last'.data.value)
        IN  ( /\ nreq' = nreq + 1
              /\ last'.op = "withdraw"
              /\ i # 0
              /\ last'.data.has
              /\ RuleOutcome(last'.data.value) = "Valid" )
            => \A b \in 0..MaxCents :
                 (accounts[i].balance = MoneyFloat[b]) =>
                    IF a <= b
                    THEN /\ last'.resp.status = 200
                         /\ accounts'[i].balance = MoneyFloat[b - a]
                    ELSE /\ last'.resp = Error(400, "Insufficient balance")
                         /\ accounts'[i].balance = accounts[i].balance ]_vars

\* C5 (as specified; the code violates it): a deposit of a valid amount a to an account whose
\* balance is the amount of money b succeeds, leaves exactly b + a stored,
\* and returns the stored balance.
C5_DepositExact ==
    [][ LET i == Find(accounts, last'.account_number)
            a == Cents(last'.data.value)
        IN  ( /\ nreq' = nreq + 1
              /\ last'.op = "deposit"
              /\ i # 0
              /\ last'.data.has
              /\ RuleOutcome(last'.data.value) = "Valid" )
            => /\ last'.resp.status = 200
               /\ last'.resp.balance = accounts'[i].balance
               /\ \A b \in 0..MaxCents :
                    (accounts[i].balance = MoneyFloat[b] /\ b + a <= MaxCents)
                        => accounts'[i].balance = MoneyFloat[b + a] ]_vars

\* the account numbers create_account can generate
Generated == {IntText(r) : r \in Numbers}

\* C6: in every reachable state no two stored accounts have the same
\* account_number and every account_number is a non-empty text generated by
\* the service; and no step removes an account or changes its number.
C6_NumbersUniqueAndKept ==
    /\ [](\A i \in 1..Len(accounts) :
            /\ accounts[i].account_number # <<>>
            /\ accounts[i].account_number \in Generated
            /\ \A j \in 1..Len(accounts) :
                  accounts[j].account_number = accounts[i].account_number => j = i)
    /\ [][\A i \in 1..Len(accounts) :
            /\ i <= Len(accounts')
            /\ accounts'[i].account_number = accounts[i].account_number]_vars

\* a second create_account drew a number that is taken, and was rejected
C6_Witness ==
    /\ Len(accounts) = 2
    /\ last.op = "create_account"
    /\ last.resp = Error(500, "IntegrityError")

\* C7 (as specified; the code violates it): every create_account with a JSON body succeeds:
\* it adds exactly one account, with a number no existing account has and
\* the initial balance supplied, or 0, and returns that account.
C7_CreateSucceeds ==
    [][ ( /\ nreq' = nreq + 1
          /\ last'.op = "create_account"
          /\ last'.data.data = "dict" )
        => /\ last'.resp.status = 201
           /\ Len(accounts') = Len(accounts) + 1
           /\ SubSeq(accounts', 1, Len(accounts)) = accounts
           /\ ~Exists(accounts'[Len(accounts')].account_number)
           /\ accounts'[Len(accounts')].balance
                 = (IF last'.data.has THEN ColumnValue(last'.data.value) ELSE FZero)
           /\ last'.resp.account_number = accounts'[Len(accounts')].account_number
           /\ last'.resp.balance = accounts'[Len(accounts')].balance ]_vars

\* C8: get_balance and every request that fails leave every account as it
\* was; a deposit or withdraw that succeeds leaves every other account as it
\* was; create_account leaves every existing account as it was; and a
\* get_balance that follows a get_balance of the same account returns the
\* same response.
C8_BalancesFramed ==
    [][ LET i == Find(accounts, last'.account_number)
        IN  (nreq' = nreq + 1) =>
              /\ (last'.op = "get_balance" \/ last'.resp.status \notin {200, 201})
                    => accounts' = accounts
              /\ (IsUpdate(last'.op) /\ last'.resp.status = 200)
                    => /\ Len(accounts') = Len(accounts)
                       /\ \A j \in 1..Len(accounts) : j # i => accounts'[j] = accounts[j]
              /\ (last'.op = "create_account")
                    => SubSeq(accounts', 1, Len(accounts)) = accounts
              /\ ( /\ last.op = "get_balance"
                   /\ last'.op = "get_balance"
                   /\ last'.account_number = last.account_number )
                    => last'.resp = last.resp ]_vars

\* a deposit has succeeded on one of two accounts, and the other account
\* holds another balance
C8_Witness ==
    /\ Len(accounts) = 2
    /\ last.op = "deposit"
    /\ last.resp.status = 200
    /\ accounts[1].balance # accounts[2].balance

\* C9 (as specified; the code violates it): a deposit or withdraw on an existing account with
\* an amount in its body ends in success or in a 4xx error, and an amount
\* that is no exact finite decimal number is reported NotNumeric.
C9_NoInternalFailure ==
    ( /\ phase = "done"
      /\ Exists(last.account_number)
      /\ last.data.has )
    => /\ last.resp.status \in {200} \cup (400..499)
       /\ ParseDecimal(Str(last.data.value)).kind # "finite"
             => ReportedOutcome(last.op, last.resp) = "NotNumeric"

\* the balance a request of worker p alone makes of balance b
Alone(p, b) ==
    IF sess[p].op = "deposit" THEN FAdd(b, sess[p].amount) ELSE FSub(b, sess[p].amount)

Succeeded(p) == sess[p].pc = "done" /\ sess[p].resp.status = 200

\* C10: a request that succeeded on a row the other worker has not
\* written leaves in that row the balance it computed from the balance it
\* read, and returns it: requests on different accounts do not interfere.
\* (That two requests on one account can lose an update is C10_Witness.)
C10_OtherAccountsIndependent ==
    \A p \in Procs, q \in Procs :
        ( /\ p # q
          /\ Succeeded(p)
          /\ ~(sess[q].pc \in {"reload", "done"} /\ sess[q].resp.status \in {0, 200}
               /\ sess[q].row = sess[p].row) )
        => /\ accounts[sess[p].row].balance = Alone(p, sess[p].read)
           /\ sess[p].resp.balance = Alone(p, sess[p].read)

\* a lost update: both workers succeeded on the same account, both read the
\* same balance, and the balance stored is what one of them alone makes of
\* it, not what the two make of it one after the other in either order
C10_Witness ==
    \E p \in Procs, q \in Procs :
        /\ p # q
        /\ Succeeded(p) /\ Succeeded(q)
        /\ sess[p].row = sess[q].row
        /\ sess[p].read = sess[q].read
        /\ accounts[sess[p].row].balance = Alone(q, sess[q].read)
        /\ accounts[sess[p].row].balance # Alone(q, Alone(p, sess[p].read))
        /\ accounts[sess[p].row].balance # Alone(p, Alone(q, sess[q].read))

====
